---- MODULE Spec2Model ----
(***************************************************************************)
(* Velora: the acquisition and post-processing engine of                   *)
(* Velora/downloader.py and Velora/ffmpeg_utils.py as a state machine.     *)
(*                                                                         *)
(* One job (a call of Downloader.download_with_options or of               *)
(* download_playlist_with_options) is followed step by step.  The two      *)
(* external tools are black boxes: every exit code, every probe outcome    *)
(* and the files a failing fetch leaves behind are chosen                  *)
(* nondeterministically.  File-system calls of the program itself          *)
(* (unlink, rename, copy) follow POSIX semantics and succeed.              *)
(***************************************************************************)
EXTENDS Naturals, Integers, Sequences, FiniteSets, TLC

(***************************************************************************)
(* Bounds of the model.                                                    *)
(***************************************************************************)
\* number of video files earlier jobs may have left in the download directory
MaxOld == 1
\* number of entries of a playlist
MaxEntries == 2
\* number of playlist runs made one after the other
MaxRuns == 2
\* the last tick of the clock in a sequence of playlist runs
MaxTick == 3
\* number of fragments of an error text of the fetch tool
MaxWords == 2
\* number of times the user retries with another URL
MaxRetries == 2

(***************************************************************************)
(* Request vocabulary (Velora/ui/menu.py: select_resolution,               *)
(* select_format).                                                         *)
(***************************************************************************)
Resolutions == {"best", "1080p", "720p", "480p", "360p", "144p"}
Formats == {"mp4", "mkv", "webm", "mov"}
\* the tiers the requests of the job model are drawn from
ReqResolutions == {"best", "720p", "480p"}
\* int(resolution.replace('p', ''))
ResHeight == [r \in Resolutions \ {"best"} |->
                CASE r = "1080p" -> 1080
                  [] r = "720p" -> 720
                  [] r = "480p" -> 480
                  [] r = "360p" -> 360
                  [] r = "144p" -> 144]

(***************************************************************************)
(* URLs.  A URL is abstracted to what the program reads from it: whether   *)
(* it starts with http://, https:// or www. and which of the known domain  *)
(* names occur in it.                                                      *)
(***************************************************************************)
Domains == {"youtube.com", "instagram.com", "tiktok.com"}
Urls == {[prefixOk |-> FALSE, domains |-> {"youtube.com"}],
         [prefixOk |-> TRUE, domains |-> {}],
         [prefixOk |-> TRUE, domains |-> {"youtube.com"}],
         [prefixOk |-> TRUE, domains |-> {"instagram.com"}],
         [prefixOk |-> TRUE, domains |-> {"tiktok.com"}],
         [prefixOk |-> TRUE, domains |-> {"instagram.com", "tiktok.com"}]}

is_valid_url_mut(url) == url.domains # {}
is_valid_url(url) == url.prefixOk /\ url.domains # {}

needs_instagram_downscaling(resolution) ==
    IF resolution = "best" THEN FALSE
    ELSE resolution \in {"480p", "360p", "144p"}

needs_tiktok_downscaling(resolution) ==
    IF resolution = "best" THEN FALSE
    ELSE resolution \in {"1080p", "720p", "480p", "360p", "144p"}

\* the branch download_with_options takes after validation
Dispatch_mut(url, resolution, audio_only) ==
    IF "instagram.com" \in url.domains
            /\ needs_instagram_downscaling(resolution) THEN "ig_fetch"
    ELSE IF "tiktok.com" \in url.domains
            /\ needs_tiktok_downscaling(resolution) THEN "tt_fetch"
    ELSE IF audio_only THEN "audio"
    ELSE "reg_fetch"
Dispatch(url, resolution, audio_only) ==
    IF audio_only THEN "audio"
    ELSE IF "instagram.com" \in url.domains
            /\ needs_instagram_downscaling(resolution) THEN "ig_fetch"
    ELSE IF "tiktok.com" \in url.domains
            /\ needs_tiktok_downscaling(resolution) THEN "tt_fetch"
    ELSE "reg_fetch"

(***************************************************************************)
(* Format selectors.  A selector string is a '/'-separated list of         *)
(* alternatives, each a '+'-joined list of stream terms; a term is a       *)
(* stream kind with an optional [height<=h] and [ext=e] filter.  h = 0     *)
(* and ext = "" mean the filter is absent.  The empty sequence is the      *)
(* strategy None (no -f option).                                           *)
(***************************************************************************)
Term(kind, h, e) == [s |-> kind, h |-> h, ext |-> e]
NoSelector == << >>

HasHeightBound(sel) ==
    \E i \in DOMAIN sel : \E j \in DOMAIN sel[i] : sel[i][j].h # 0

\* 'bestvideo' occurs in the selector string
MentionsBestvideo(sel) ==
    \E i \in DOMAIN sel : \E j \in DOMAIN sel[i] : sel[i][j].s = "bestvideo"

format_string_mut(resolution, include_audio) ==
    IF include_audio
    THEN << <<Term("bestvideo", 1080, ""), Term("bestaudio", 0, "")>>,
            <<Term("best", 1080, "")>> >>
    ELSE << <<Term("bestvideo", 1080, "")>>, <<Term("best", 0, "")>> >>

\* the format_string of _build_format_string
format_string(resolution, include_audio) ==
    IF resolution = "best"
    THEN IF include_audio
         THEN << <<Term("bestvideo", 0, ""), Term("bestaudio", 0, "")>>,
                 <<Term("best", 0, "")>> >>
         ELSE << <<Term("bestvideo", 0, "")>>, <<Term("best", 0, "")>> >>
    ELSE LET height == ResHeight[resolution] IN
         IF include_audio
         THEN << <<Term("bestvideo", height, ""), Term("bestaudio", 0, "")>>,
                 <<Term("best", height, "")>> >>
         ELSE << <<Term("bestvideo", height, "")>>,
                 <<Term("best", height, "")>>,
                 <<Term("best", 0, "")>> >>

build_format_string_mut(resolution, include_audio, output_format) ==
    [sel |-> format_string(resolution, include_audio),
     remux |-> IF output_format \notin {"webm"} THEN output_format ELSE "",
     recode |-> ""]

\* the command options _build_format_string returns: -f <selector> plus the
\* inline container flag, "" when the flag is absent
build_format_string(resolution, include_audio, output_format) ==
    [sel |-> format_string(resolution, include_audio),
     remux |-> IF output_format \notin {"webm", "mov"}
                  /\ output_format \in {"mp4", "mkv"}
               THEN output_format ELSE "",
     recode |-> IF output_format \notin {"webm", "mov"}
                   /\ output_format \notin {"mp4", "mkv"}
                THEN output_format ELSE ""]

\* the format_string built inline by _download_playlist_video_with_options
playlist_format_string(resolution, include_audio) ==
    IF resolution = "best"
    THEN IF include_audio
         THEN << <<Term("bestvideo", 0, ""), Term("bestaudio", 0, "")>>,
                 <<Term("best", 0, "")>> >>
         ELSE << <<Term("bestvideo", 0, "")>> >>
    ELSE LET height == ResHeight[resolution] IN
         IF include_audio
         THEN << <<Term("bestvideo", height, ""), Term("bestaudio", 0, "")>>,
                 <<Term("best", height, "")>> >>
         ELSE << <<Term("bestvideo", height, "")>> >>

FormatStrategiesMut ==
    << << <<Term("best", 480, "mp4")>> >>,
       << <<Term("best", 0, "")>> >>,
       << <<Term("bestvideo", 0, ""), Term("bestaudio", 0, "")>>,
          <<Term("best", 0, "")>> >>,
       NoSelector >>

\* format_strategies of _download_instagram_with_downscaling
FormatStrategies ==
    << << <<Term("best", 0, "mp4")>> >>,
       << <<Term("best", 0, "")>> >>,
       << <<Term("bestvideo", 0, ""), Term("bestaudio", 0, "")>>,
          <<Term("best", 0, "")>> >>,
       NoSelector >>


(***************************************************************************)
(* Files.  A file name is prefix + stem + suffix + "." + ext:              *)
(* temp_T.mp4 is [pre "temp_", stem "T", sfx "", ext "mp4"],               *)
(* T_no_audio.mp4 has sfx "_no_audio", and the partial download            *)
(* temp_T.mp4.part has stem "T.mp4" and ext "part".  height = 0 marks a    *)
(* file no tool can read (a partial download).                             *)
(***************************************************************************)
VideoExts == {"mp4", "mkv", "webm", "avi", "mov"}
\* containers the fetch tool may deliver when no container is forced
SrcExts == {"mp4", "webm"}
\* heights the fetch tool may deliver
SrcHeights == {360, 1080}

NoFile == [pre |-> "", stem |-> "", sfx |-> "", ext |-> ""]
Name(pre, stem, ext) == [pre |-> pre, stem |-> stem, sfx |-> "", ext |-> ext]
NameOf(f) == [pre |-> f.pre, stem |-> f.stem, sfx |-> f.sfx, ext |-> f.ext]
MkFile(n, audio, height, mtime, origin) ==
    [pre |-> n.pre, stem |-> n.stem, sfx |-> n.sfx, ext |-> n.ext,
     audio |-> audio, height |-> height, mtime |-> mtime, origin |-> origin]

Exists(d, n) == \E f \in d : NameOf(f) = n
\* the file named n; a name that does not exist behaves as an unreadable file
Lookup(d, n) == IF Exists(d, n) THEN CHOOSE f \in d : NameOf(f) = n
                ELSE MkFile(n, FALSE, 0, 0, "none")
\* creating or overwriting a file
WriteFile(d, f) == {g \in d : NameOf(g) # NameOf(f)} \cup {f}
\* Path.unlink
Unlink_mut(d, n) == d
Unlink(d, n) == {g \in d : NameOf(g) # n}
\* Path.rename (POSIX: silently replaces the target)
Rename(d, n1, n2) ==
    LET f == Lookup(d, n1) IN
    IF Exists(d, n1)
    THEN WriteFile(Unlink(d, n1),
                   MkFile(n2, f.audio, f.height, f.mtime, f.origin))
    ELSE d
\* Path.with_suffix
WithSuffix(n, e) == [n EXCEPT !.ext = e]
\* Path.with_stem(f"{stem}_no_audio")
WithNoAudioStem(n) == [n EXCEPT !.sfx = "_no_audio"]
\* name.replace('temp_', '')
StripTemp(n) == [n EXCEPT !.pre = ""]

\* download_dir.glob("temp_*")
GlobTemp(d) == {f \in d : f.pre = "temp_"}
\* the union of download_dir.glob(ext) over '*.mp4', '*.mkv', '*.webm',
\* '*.avi', '*.mov'
GlobVideos(d) == {f \in d : f.ext \in VideoExts}
\* the candidates of max(video_files, key=st_mtime)
Latest(files) == {f \in files : \A g \in files : g.mtime <= f.mtime}

\* the k-th video an earlier job left behind, last written at time k
OldStems == <<"Old1", "Old2", "Old3">>
OldFile(k) == MkFile(Name("", OldStems[k], "mp4"), TRUE, 720, k, "old")
\* what a failing or interrupted fetch may leave behind: <template>.mp4.part
Partial(pre, stem) == MkFile(Name(pre, stem, "part"), TRUE, 0, 0, "job")
PartialStem == [s \in {"T", "tiktok"} |->
                  IF s = "T" THEN "T.mp4" ELSE "tiktok.mp4"]
\* the directory after a fetch that exited non-zero
AfterFailedFetch(d, pre, stem, leaves) ==
    IF leaves THEN WriteFile(d, Partial(pre, PartialStem[stem])) ELSE d
\* the directory after a fetch that exited 0 and wrote f (a partial file of
\* the same target is completed, that is, renamed by the fetch tool)
AfterFetch(d, f) ==
    WriteFile(IF f.ext = "mp4"
              THEN Unlink(d, Name(f.pre, PartialStem[f.stem], "part"))
              ELSE d, f)

(***************************************************************************)
(* Probing (FFmpegUtils.get_video_info).  The result is {} when ffprobe    *)
(* was not found or when probing raises; otherwise it carries the height   *)
(* of the video stream and the audio codec of the audio stream.            *)
(***************************************************************************)
EmptyInfo == [ok |-> FALSE, height |-> 0, audio |-> FALSE]
get_video_info(ffprobe, raises, f) ==
    IF ~ffprobe THEN EmptyInfo
    ELSE IF raises \/ f.height = 0 THEN EmptyInfo
    ELSE [ok |-> TRUE, height |-> f.height, audio |-> f.audio]

\* the exceptions a probe of f may or may not raise
ProbeRaises(f) == IF f.height = 0 THEN {TRUE} ELSE BOOLEAN

(***************************************************************************)
(* The downscale stage (FFmpegUtils.downscale_video).                      *)
(***************************************************************************)
\* what downscale_video does with the probe result: "unavailable" (return
\* False), "copy" (shutil.copy2) or "scale" (_downscale_with_subprocess)
DownscalePlan(available, info, target_height) ==
    IF ~available THEN "unavailable"
    ELSE IF info.ok /\ info.height # 0 /\ info.height <= target_height
         THEN "copy"
    ELSE "scale"

\* the file downscale_video leaves at out: a copy keeps content and mtime
\* (copy2), the transcode 'scale=-2:<target>' yields the target height
DownscaleOutput(f, out, plan, target_height, now) ==
    IF plan = "copy"
    THEN MkFile(out, f.audio, f.height, f.mtime, f.origin)
    ELSE MkFile(out, f.audio, target_height, now, f.origin)

\* the exit codes a transcode of f may have: an unreadable input fails
TranscodeOk(f) == IF f.height = 0 THEN {FALSE} ELSE BOOLEAN

(***************************************************************************)
(* The container-convert stage.  ConvertAttempts is the order in which     *)
(* _ffmpeg_convert_to_format / _ffmpeg_convert_to_mov and their subprocess *)
(* fallback invoke the transcoder, each attempt being made only when all   *)
(* earlier ones failed: "conv_copy" is a stream copy, "conv_encode" a      *)
(* re-encode.  ffmpeg_utils.py imports the ffmpeg-python module            *)
(* unconditionally, so FFMPEG_PYTHON_AVAILABLE holds in every run.         *)
(***************************************************************************)
FFMPEG_PYTHON_AVAILABLE == TRUE

ConvertAttempts(target_format) ==
    CASE target_format = "mkv" ->
            IF FFMPEG_PYTHON_AVAILABLE
            THEN <<"conv_copy", "conv_encode", "conv_copy">>
            ELSE <<"conv_copy">>
      [] target_format = "webm" ->
            IF FFMPEG_PYTHON_AVAILABLE
            THEN <<"conv_encode", "conv_encode">>
            ELSE <<"conv_encode">>
      [] target_format = "mp4" ->
            IF FFMPEG_PYTHON_AVAILABLE
            THEN <<"conv_copy", "conv_encode", "conv_encode">>
            ELSE <<"conv_encode">>
      [] target_format = "mov" ->
            IF FFMPEG_PYTHON_AVAILABLE
            THEN <<"conv_copy", "conv_encode", "conv_copy", "conv_encode">>
            ELSE <<"conv_copy", "conv_encode">>
      [] OTHER -> << >>

ConvertEffectMut(d, n, target_format, success, now) ==
    LET f == Lookup(d, n) IN
    Unlink(IF success
           THEN WriteFile(d, MkFile(WithSuffix(n, target_format), f.audio,
                                    f.height, now, f.origin))
           ELSE d, n)

\* the directory after the conversion of n: on success the new container
\* exists and the original is unlinked, on failure nothing changes
ConvertEffect(d, n, target_format, success, now) ==
    LET f == Lookup(d, n) IN
    IF success
    THEN Unlink(WriteFile(d, MkFile(WithSuffix(n, target_format), f.audio,
                                    f.height, now, f.origin)), n)
    ELSE d

StripReplaceMut(d, n, now) ==
    LET f == Lookup(d, n)
        out == MkFile(WithNoAudioStem(n), FALSE, f.height, now, f.origin)
    IN WriteFile(d, out)

\* the directory after a successful audio removal of n: T_no_audio is
\* written, n is unlinked, T_no_audio is renamed to n
StripReplace(d, n, now) ==
    LET f == Lookup(d, n)
        out == MkFile(WithNoAudioStem(n), FALSE, f.height, now, f.origin)
    IN Rename(Unlink(WriteFile(d, out), n), NameOf(out), n)

(***************************************************************************)
(* State.                                                                  *)
(***************************************************************************)
VARIABLES
    req,            \* the request: url, resolution, include_audio,
                    \* output_format, kind ("video", "audio", "playlist")
    env,            \* which of ffmpeg / ffprobe FFmpegUtils found
    dir,            \* the files of the download directory
    clock,          \* the time the next written file is stamped with
    pc,             \* the position of the job
    result,         \* "pending", "success", "failure" or "cancelled"
    strategy,       \* index into format_strategies (Instagram path)
    temp_file,      \* name of the provisional file the platform path chose
    final_path,     \* name of the artifact the platform path works on
    desired_format, \* self._desired_format, "" while the attribute is unset
    fetches,        \* the fetch-tool download commands run, with exit codes
    trace,          \* every tool invocation, in order
    stages,         \* the stage results reported, in order
    playlist_dir,   \* the files of the playlist subdirectory
    made_dirs,      \* the directories the program has created (mkdir)
    info_result     \* what the last info lookup returned

vars == <<req, env, dir, clock, pc, result, strategy, temp_file, final_path,
          desired_format, fetches, trace, stages, playlist_dir, made_dirs,
          info_result>>

\* no info lookup has been made
NoInfo == [error |-> "", message |-> << >>]
\* Path.home() / "Downloads" / "Velora"
DownloadDir == <<"Velora">>
\* the clock counts ticks; time.time() is clock / TicksPerSecond seconds
TicksPerSecond == 2
\* download_dir / "Playlists" / f"playlist_{int(time.time())}"
PlaylistDirName(t) == <<"Velora", "Playlists", t \div TicksPerSecond>>

Ev(op, ok) == [op |-> op, ok |-> ok]
St(stage, res) == [stage |-> stage, result |-> res]
ExitCodes == {0, 1}

VideoRequests == [url : Urls, resolution : ReqResolutions,
                  include_audio : BOOLEAN, output_format : Formats,
                  kind : {"video"}]
\* VeloraApp.handle_download_audio always asks for mp3
AudioRequests == [url : Urls, resolution : ReqResolutions,
                  include_audio : BOOLEAN, output_format : {"mp3"},
                  kind : {"audio"}]
\* download_playlist_with_options with download_type "video"
PlaylistRequests == [url : Urls, resolution : ReqResolutions,
                     include_audio : BOOLEAN, output_format : Formats,
                     kind : {"playlist"}]
Requests == VideoRequests \cup AudioRequests \cup PlaylistRequests

Init ==
    /\ req \in Requests
    /\ env \in [ffmpeg : BOOLEAN, ffprobe : BOOLEAN]
    /\ \E k \in 0..MaxOld : dir = {OldFile(i) : i \in 1..k}
    /\ clock = MaxOld + 1
    /\ pc = "start"
    /\ result = "pending"
    /\ strategy = 1
    /\ temp_file = NoFile
    /\ final_path = NoFile
    /\ desired_format = ""
    /\ fetches = << >>
    /\ trace = << >>
    /\ stages = << >>
    /\ playlist_dir = {}
    /\ made_dirs = {}
    /\ info_result = NoInfo

(***************************************************************************)
(* Fetch-tool commands.  opts is the set of option words of the command    *)
(* other than the selector, the template and the URL; container is the     *)
(* argument of --remux-video / --recode-video / --audio-format.            *)
(***************************************************************************)
Cmd(playlist, template, sel, opts, container, rc, err) ==
    [playlist |-> playlist, template |-> template, sel |-> sel,
     opts |-> opts, container |-> container, rc |-> rc, err |-> err]

\* what the error text of a fetch that exited with rc says: an
\* unsupported / invalid URL, or anything else
ErrKinds(rc) == IF rc = 0 THEN {"none"} ELSE {"invalid_url", "unknown"}

\* _add_ffmpeg_location_to_cmd
add_ffmpeg_location(opts) ==
    IF env.ffmpeg THEN opts \cup {"--ffmpeg-location"} ELSE opts

\* the option words _build_format_string contributes
FormatOptWords(fo) ==
    {"-f"} \cup (IF fo.remux # "" THEN {"--remux-video"} ELSE {})
           \cup (IF fo.recode # "" THEN {"--recode-video"} ELSE {})
FormatContainer(fo) == IF fo.remux # "" THEN fo.remux ELSE fo.recode

\* the containers the fetch tool can deliver for format options fo
Delivered(fo) == IF FormatContainer(fo) # "" THEN {FormatContainer(fo)}
                 ELSE SrcExts
\* whether the delivered file carries audio
DeliveredAudio(include_audio) == IF include_audio THEN {TRUE} ELSE BOOLEAN

(***************************************************************************)
(* Stage bodies shared by the directory-wide and the specific-file         *)
(* variants.  Each fixes dir', clock', trace' and stages'.                 *)
(***************************************************************************)
StageUnchanged(tr, st) ==
    /\ dir' = dir
    /\ clock' = clock
    /\ trace' = tr
    /\ stages' = Append(stages, st)

\* _remove_audio_from_specific_file / _remove_audio_from_downloaded_files,
\* from the probe on
StripBody(n) ==
    LET f == Lookup(dir, n) IN
    \E raises \in ProbeRaises(f) :
        LET info == get_video_info(env.ffprobe, raises, f)
            tr1 == IF env.ffprobe THEN Append(trace, Ev("probe", info.ok))
                   ELSE trace
        IN IF ~info.ok \/ ~info.audio
           THEN StageUnchanged(tr1, St("strip", "skipped"))
           ELSE \E ok \in TranscodeOk(f) :
                    IF ok
                    THEN /\ dir' = StripReplace(dir, n, clock)
                         /\ clock' = clock + 1
                         /\ trace' = Append(tr1, Ev("strip", TRUE))
                         /\ stages' = Append(stages, St("strip", "fast"))
                    ELSE StageUnchanged(Append(tr1, Ev("strip", FALSE)),
                                        St("strip", "failed"))

remove_audio_from_specific_file(n) ==
    IF ~env.ffmpeg
    THEN StageUnchanged(trace, St("strip", "failed"))
    ELSE StripBody(n)

remove_audio_from_downloaded_files ==
    IF ~env.ffmpeg
    THEN StageUnchanged(trace, St("strip", "failed"))
    ELSE IF GlobVideos(dir) = {}
    THEN StageUnchanged(trace, St("strip", "skipped"))
    ELSE \E latest_video \in Latest(GlobVideos(dir)) :
            StripBody(NameOf(latest_video))

\* the first k attempts fail; attempt k + 1, if there is one, succeeds
AttemptEvents(attempts, k) ==
    [i \in 1..(IF k < Len(attempts) THEN k + 1 ELSE k) |->
        Ev(attempts[i], i > k)]
AttemptResult(attempts, k) ==
    IF k >= Len(attempts) THEN "failed"
    ELSE IF attempts[k + 1] = "conv_copy" THEN "fast" ELSE "fallback"
\* how many attempts may fail on input f
FailCounts(f, attempts) ==
    IF f.height = 0 THEN {Len(attempts)} ELSE 0..Len(attempts)

AlreadyInFormatMut(n, target_format) == FALSE

\* current_ext == target_format: the file is already in the target container
AlreadyInFormat(n, target_format) == n.ext = target_format

\* _convert_specific_file_to_format / _convert_to_format, from the
\* comparison of the extensions on
ConvertBody(n, target_format) ==
    LET f == Lookup(dir, n)
        attempts == ConvertAttempts(target_format)
    IN IF AlreadyInFormat(n, target_format)
       THEN StageUnchanged(trace, St("convert", "skipped"))
       ELSE IF ~env.ffmpeg
       THEN StageUnchanged(trace, St("convert", "failed"))
       ELSE \E k \in FailCounts(f, attempts) :
               /\ dir' = ConvertEffect(dir, n, target_format,
                                       k < Len(attempts), clock)
               /\ clock' = IF k < Len(attempts) THEN clock + 1 ELSE clock
               /\ trace' = trace \o AttemptEvents(attempts, k)
               /\ stages' = Append(stages,
                                   St("convert", AttemptResult(attempts, k)))

convert_specific_file_to_format(n, target_format) ==
    ConvertBody(n, target_format)

convert_to_format(target_format) ==
    IF GlobVideos(dir) = {}
    THEN StageUnchanged(trace, St("convert", "failed"))
    ELSE \E latest_video \in Latest(GlobVideos(dir)) :
            ConvertBody(NameOf(latest_video), target_format)

(***************************************************************************)
(* download_with_options: validation and dispatch.                         *)
(***************************************************************************)
Start ==
    /\ pc = "start"
    /\ req.kind \in {"video", "audio"}
    /\ IF ~is_valid_url(req.url)
       THEN /\ pc' = "done"
            /\ result' = "failure"
            /\ made_dirs' = made_dirs
       ELSE /\ pc' = Dispatch(req.url, req.resolution, req.kind = "audio")
            /\ result' = result
            \* _create_download_dir
            /\ made_dirs' = made_dirs \cup {DownloadDir}
    /\ info_result' = info_result
    /\ UNCHANGED <<req, env, dir, clock, strategy, temp_file, final_path,
                   desired_format, fetches, trace, stages, playlist_dir>>

AudioFailureResultMut == "success"

\* what _download_audio_only returns when the fetch tool exits non-zero
AudioFailureResult == "failure"

\* _download_audio_only
AudioFetch ==
    /\ pc = "audio"
    /\ \E rc \in ExitCodes, leaves \in BOOLEAN : \E err \in ErrKinds(rc) :
          /\ fetches' = Append(fetches,
                Cmd("--no-playlist", "title", NoSelector,
                    add_ffmpeg_location({"-x", "--audio-format",
                        "--audio-quality", "--progress", "--no-warnings"}),
                    req.output_format, rc, err))
          /\ trace' = Append(trace, Ev("fetch", rc = 0))
          /\ IF rc = 0
             THEN /\ dir' = WriteFile(dir,
                        MkFile(Name("", "T", req.output_format),
                               TRUE, 0, clock, "job"))
                  /\ clock' = clock + 1
                  /\ result' = "success"
             ELSE /\ dir' = AfterFailedFetch(dir, "", "T", leaves)
                  /\ clock' = clock
                  /\ result' = AudioFailureResult
    /\ pc' = "done"
    /\ UNCHANGED <<made_dirs, info_result>>
    /\ UNCHANGED <<req, env, strategy, temp_file, final_path, desired_format,
                   stages, playlist_dir>>

(***************************************************************************)
(* download_with_options: the regular download.                            *)
(***************************************************************************)
AfterRegularFetchMut(rc) == "reg_strip"

\* where the regular download goes after the fetch tool exited with rc
AfterRegularFetch(rc) == IF rc = 0 THEN "reg_strip" ELSE "done"

\* line 110: the format options of the regular download, also when it is
\* the fallback of a platform path
regular_format_opts_mut ==
    build_format_string("best", req.include_audio, req.output_format)
regular_format_opts ==
    build_format_string(req.resolution, req.include_audio, req.output_format)

RegFetch ==
    /\ pc = "reg_fetch"
    /\ LET fo == regular_format_opts
       IN /\ desired_format' = req.output_format
          /\ \E rc \in ExitCodes, leaves \in BOOLEAN, ext \in Delivered(fo),
                height \in SrcHeights,
                audio \in DeliveredAudio(req.include_audio),
                mtime \in {0, clock} : \E err \in ErrKinds(rc) :
                /\ fetches' = Append(fetches,
                      Cmd("--no-playlist", "title", fo.sel,
                          add_ffmpeg_location(FormatOptWords(fo)
                              \cup {"--progress", "--no-warnings"}),
                          FormatContainer(fo), rc, err))
                /\ trace' = Append(trace, Ev("fetch", rc = 0))
                /\ IF rc = 0
                   THEN /\ dir' = AfterFetch(dir,
                              MkFile(Name("", "T", ext), audio, height,
                                     mtime, "job"))
                        /\ clock' = clock + 1
                   ELSE /\ dir' = AfterFailedFetch(dir, "", "T", leaves)
                        /\ clock' = clock
                /\ pc' = AfterRegularFetch(rc)
                /\ result' = IF AfterRegularFetch(rc) = "done"
                             THEN "failure" ELSE result
    /\ UNCHANGED <<made_dirs, info_result>>
    /\ UNCHANGED <<req, env, strategy, temp_file, final_path, stages,
                   playlist_dir>>

\* lines 149-151: audio removal after the regular download
RegStrip ==
    /\ pc = "reg_strip"
    /\ IF ~req.include_audio
       THEN remove_audio_from_downloaded_files
       ELSE UNCHANGED <<dir, clock, trace, stages>>
    /\ pc' = "reg_convert"
    /\ UNCHANGED <<made_dirs, info_result>>
    /\ UNCHANGED <<req, env, result, strategy, temp_file, final_path,
                   desired_format, fetches, playlist_dir>>

\* lines 153-173: container conversion after the regular download
RegConvert ==
    /\ pc = "reg_convert"
    /\ IF desired_format # "" /\ GlobVideos(dir) # {}
       THEN \E latest_video \in Latest(GlobVideos(dir)) :
               IF ~AlreadyInFormat(NameOf(latest_video), desired_format)
               THEN convert_to_format(desired_format)
               ELSE StageUnchanged(trace, St("convert", "skipped"))
       ELSE UNCHANGED <<dir, clock, trace, stages>>
    /\ pc' = "done"
    /\ result' = "success"
    /\ UNCHANGED <<made_dirs, info_result>>
    /\ UNCHANGED <<req, env, strategy, temp_file, final_path,
                   desired_format, fetches, playlist_dir>>

(***************************************************************************)
(* The Instagram path: _download_instagram_with_downscaling.               *)
(***************************************************************************)
\* the option words of one strategy's command (lines 222-240)
StrategyOptWords(sel, include_audio) ==
    {"--progress", "--no-warnings"}
        \cup (IF sel # NoSelector THEN {"-f"} ELSE {})
        \cup (IF ~include_audio /\ sel # NoSelector
                 /\ ~MentionsBestvideo(sel)
              THEN {"--no-audio"} ELSE {})

\* the containers a strategy can deliver: 'best[ext=mp4]' only mp4
StrategyDelivers(sel) ==
    IF sel # NoSelector /\ \A i \in DOMAIN sel : \A j \in DOMAIN sel[i] :
                              sel[i][j].ext = "mp4"
    THEN {"mp4"} ELSE SrcExts

\* one iteration of the loop over format_strategies
IgFetch ==
    /\ pc = "ig_fetch"
    /\ LET sel == FormatStrategies[strategy] IN
       \E rc \in ExitCodes, leaves \in BOOLEAN, ext \in StrategyDelivers(sel),
          height \in SrcHeights,
          audio \in DeliveredAudio(req.include_audio) :
          \E err \in ErrKinds(rc) :
          /\ fetches' = Append(fetches,
                Cmd("--no-playlist", "temp_title", sel,
                    StrategyOptWords(sel, req.include_audio), "", rc, err))
          /\ trace' = Append(trace, Ev("fetch", rc = 0))
          /\ IF rc = 0
             THEN /\ dir' = AfterFetch(dir,
                        MkFile(Name("temp_", "T", ext), audio, height,
                               clock, "job"))
                  /\ clock' = clock + 1
                  \* temp_files[0] of an unordered directory listing
                  /\ \E tf \in GlobTemp(dir') :
                        /\ temp_file' = NameOf(tf)
                        /\ final_path' = StripTemp(NameOf(tf))
                  /\ pc' = "pf_downscale"
                  /\ strategy' = strategy
             ELSE /\ dir' = AfterFailedFetch(dir, "temp_", "T", leaves)
                  /\ clock' = clock
                  /\ UNCHANGED <<temp_file, final_path>>
                  /\ IF strategy < Len(FormatStrategies)
                     THEN /\ strategy' = strategy + 1
                          /\ pc' = pc
                     ELSE /\ strategy' = strategy
                          /\ pc' = "reg_fetch"
    /\ UNCHANGED <<made_dirs, info_result>>
    /\ UNCHANGED <<req, env, result, desired_format, stages, playlist_dir>>

(***************************************************************************)
(* The TikTok path: _download_tiktok_with_downscaling.                     *)
(***************************************************************************)
\* download_dir.glob(f"{temp_filename}.*")
GlobTikTok(d) == {f \in d : f.pre = "temp_"
                            /\ f.stem \in {"tiktok", PartialStem["tiktok"]}}

TtFetch ==
    /\ pc = "tt_fetch"
    /\ LET fo == build_format_string("best", req.include_audio,
                                     req.output_format)
       IN /\ desired_format' = req.output_format
          /\ \E rc \in ExitCodes, leaves \in BOOLEAN, ext \in Delivered(fo),
                height \in SrcHeights,
                audio \in DeliveredAudio(req.include_audio) :
                \E err \in ErrKinds(rc) :
                /\ fetches' = Append(fetches,
                      Cmd("--no-playlist", "temp_tiktok", fo.sel,
                          FormatOptWords(fo)
                              \cup {"--progress", "--no-warnings"},
                          FormatContainer(fo), rc, err))
                /\ trace' = Append(trace, Ev("fetch", rc = 0))
                /\ IF rc = 0
                   THEN /\ dir' = AfterFetch(dir,
                              MkFile(Name("temp_", "tiktok", ext), audio,
                                     height, clock, "job"))
                        /\ clock' = clock + 1
                        /\ \E tf \in GlobTikTok(dir') :
                              temp_file' = NameOf(tf)
                        /\ pc' = "tt_title"
                   ELSE /\ dir' = AfterFailedFetch(dir, "temp_", "tiktok",
                                                   leaves)
                        /\ clock' = clock
                        /\ temp_file' = temp_file
                        /\ pc' = "reg_fetch"
    /\ UNCHANGED <<made_dirs, info_result>>
    /\ UNCHANGED <<req, env, result, strategy, final_path, stages,
                   playlist_dir>>

\* lines 388-402: the title lookup that names the final file
TtTitle ==
    /\ pc = "tt_title"
    /\ \E ok \in BOOLEAN :
          /\ trace' = Append(trace, Ev("title", ok))
          /\ final_path' = Name("", IF ok THEN "T" ELSE "tiktok_video",
                                temp_file.ext)
    /\ pc' = "pf_downscale"
    /\ UNCHANGED <<made_dirs, info_result>>
    /\ UNCHANGED <<req, env, dir, clock, result, strategy, temp_file,
                   desired_format, fetches, stages, playlist_dir>>

(***************************************************************************)
(* Post-processing of the platform paths (Instagram lines 269-333, the     *)
(* same code in TikTok lines 385-456).                                     *)
(***************************************************************************)
AfterDownscaleMut(success) == IF success THEN "pf_strip" ELSE "pf_convert"

\* both outcomes of the downscale go on to the audio removal
AfterDownscale(success) == "pf_strip"

PlatformDownscale ==
    /\ pc = "pf_downscale"
    /\ LET target_height == ResHeight[req.resolution]
           f == Lookup(dir, temp_file)
       IN IF env.ffmpeg
          THEN \E raises \in ProbeRaises(f), ok \in TranscodeOk(f) :
                 LET info == get_video_info(env.ffprobe, raises, f)
                     plan == DownscalePlan(env.ffmpeg, info, target_height)
                     success == plan = "copy" \/ ok
                     tr1 == IF env.ffprobe
                            THEN Append(trace, Ev("probe", info.ok))
                            ELSE trace
                     out == DownscaleOutput(f, final_path, plan,
                                            target_height, clock)
                 IN /\ trace' = Append(tr1, IF plan = "copy"
                                            THEN Ev("copyfile", TRUE)
                                            ELSE Ev("scale", ok))
                    /\ stages' = Append(stages, St("downscale",
                                   IF plan = "copy" THEN "skipped"
                                   ELSE IF ok THEN "fallback" ELSE "failed"))
                    /\ dir' = IF success
                              THEN Unlink(WriteFile(dir, out), temp_file)
                              ELSE Rename(dir, temp_file, final_path)
                    /\ clock' = clock + 1
                    /\ pc' = AfterDownscale(success)
          ELSE /\ trace' = trace
               /\ stages' = Append(stages, St("downscale", "failed"))
               /\ dir' = Rename(dir, temp_file, final_path)
               /\ clock' = clock
               /\ pc' = AfterDownscale(FALSE)
    /\ UNCHANGED <<made_dirs, info_result>>
    /\ UNCHANGED <<req, env, result, strategy, temp_file, final_path,
                   desired_format, fetches, playlist_dir>>

PlatformStrip ==
    /\ pc = "pf_strip"
    /\ IF ~req.include_audio
       THEN remove_audio_from_specific_file(final_path)
       ELSE UNCHANGED <<dir, clock, trace, stages>>
    /\ pc' = "pf_convert"
    /\ UNCHANGED <<made_dirs, info_result>>
    /\ UNCHANGED <<req, env, result, strategy, temp_file, final_path,
                   desired_format, fetches, playlist_dir>>

PlatformConvert ==
    /\ pc = "pf_convert"
    /\ IF req.output_format # "mp4"
       THEN convert_specific_file_to_format(final_path, req.output_format)
       ELSE UNCHANGED <<dir, clock, trace, stages>>
    /\ pc' = "done"
    /\ result' = "success"
    /\ UNCHANGED <<made_dirs, info_result>>
    /\ UNCHANGED <<req, env, strategy, temp_file, final_path,
                   desired_format, fetches, playlist_dir>>

(***************************************************************************)
(* Playlists: download_playlist_with_options with download_type "video".   *)
(***************************************************************************)
EntryStems == <<"1 - A", "2 - B", "3 - C">>
Entries == 1..MaxEntries

PlStart ==
    /\ pc = "start"
    /\ req.kind = "playlist"
    /\ IF ~is_valid_url(req.url)
       THEN /\ pc' = "done"
            /\ result' = "failure"
            /\ made_dirs' = made_dirs
            /\ trace' = trace
       ELSE /\ pc' = "pl_fetch"
            /\ result' = result
            \* _create_download_dir and playlist_dir.mkdir(exist_ok=True);
            \* the event tells whether the subdirectory was new
            /\ made_dirs' = made_dirs
                                \cup {DownloadDir, PlaylistDirName(clock)}
            /\ trace' = Append(trace,
                    Ev("mkdir", PlaylistDirName(clock) \notin made_dirs))
    /\ info_result' = info_result
    /\ UNCHANGED <<req, env, dir, clock, strategy, temp_file, final_path,
                   desired_format, fetches, stages, playlist_dir>>

\* the option words of the playlist command (lines 1484-1498)
PlaylistOptWords(output_format) ==
    {"-f", "--progress", "--no-warnings"}
        \cup (IF output_format \notin {"webm", "mov"}
              THEN IF output_format \in {"mp4", "mkv"}
                   THEN {"--remux-video"} ELSE {"--recode-video"}
              ELSE {})
PlaylistContainer(output_format) ==
    IF output_format \notin {"webm", "mov"} THEN output_format ELSE ""

\* _convert_playlist_to_mov over entries i..MaxEntries: ks[i] attempts of
\* entry i fail; the result is the directory, the trace and the stages
RECURSIVE ConvertPlaylist(_, _, _, _, _)
ConvertPlaylist(i, d, tr, st, ks) ==
    IF i > MaxEntries THEN [dir |-> d, trace |-> tr, stages |-> st]
    ELSE LET n == Name("", EntryStems[i], "mp4")
             attempts == ConvertAttempts("mov")
         IN IF ~Exists(d, n) THEN ConvertPlaylist(i + 1, d, tr, st, ks)
            ELSE IF ~env.ffmpeg
            THEN [dir |-> d, trace |-> tr,
                  stages |-> Append(st, St("convert", "failed"))]
            ELSE ConvertPlaylist(i + 1,
                    ConvertEffect(d, n, "mov", ks[i] < Len(attempts),
                                  clock + i),
                    tr \o AttemptEvents(attempts, ks[i]),
                    Append(st, St("convert",
                                  AttemptResult(attempts, ks[i]))),
                    ks)

\* _download_playlist_video_with_options
PlFetch ==
    /\ pc = "pl_fetch"
    /\ \E rc \in ExitCodes, got \in SUBSET Entries,
          ext \in (IF PlaylistContainer(req.output_format) # ""
                   THEN {PlaylistContainer(req.output_format)}
                   ELSE SrcExts),
          ks \in [Entries -> 0..Len(ConvertAttempts("mov"))] :
          \E err \in ErrKinds(rc) :
          /\ rc = 0 => got = Entries
          /\ rc # 0 => got # Entries /\ \A i \in Entries : ks[i] = 0
          /\ (rc = 0 /\ req.output_format = "mov" /\ ext = "mp4"
                /\ env.ffmpeg) \/ \A i \in Entries : ks[i] = 0
          /\ fetches' = Append(fetches,
                Cmd("--yes-playlist", "playlist_index_title",
                    playlist_format_string(req.resolution,
                                           req.include_audio),
                    PlaylistOptWords(req.output_format),
                    PlaylistContainer(req.output_format), rc, err))
          /\ LET tr1 == Append(trace, Ev("fetch", rc = 0))
                 d1 == {MkFile(Name("", EntryStems[i], ext), TRUE, 1080,
                               clock, "job") : i \in got}
                 conv == ConvertPlaylist(1, d1, tr1, stages, ks)
             IN IF rc = 0
                THEN /\ result' = "success"
                     /\ IF req.output_format = "mov"
                        THEN /\ playlist_dir' = conv.dir
                             /\ trace' = conv.trace
                             /\ stages' = conv.stages
                        ELSE /\ playlist_dir' = d1
                             /\ trace' = tr1
                             /\ stages' = stages
                ELSE /\ result' = "failure"
                     /\ playlist_dir' = d1
                     /\ trace' = tr1
                     /\ stages' = stages
    /\ pc' = "done"
    /\ clock' = clock + MaxEntries + 1
    /\ UNCHANGED <<made_dirs, info_result>>
    /\ UNCHANGED <<req, env, dir, strategy, temp_file, final_path,
                   desired_format>>

(***************************************************************************)
(* A user interrupt (Ctrl-C) while an external process runs.               *)
(* KeyboardInterrupt is not an Exception: no handler of downloader.py      *)
(* catches it, it reaches VeloraApp.run, which prints a farewell and       *)
(* exits.  An interrupted fetch may leave its partial file.                *)
(***************************************************************************)
FetchPcs == {"audio", "reg_fetch", "ig_fetch", "tt_fetch", "pl_fetch"}
FetchPrefix == IF pc \in {"ig_fetch", "tt_fetch"} THEN "temp_" ELSE ""
FetchStem == IF pc = "tt_fetch" THEN "tiktok" ELSE "T"

\* an external process is running at the current position
InFlight ==
    \/ pc \in FetchPcs
    \/ pc = "pf_downscale" /\ env.ffmpeg
    \/ pc = "pf_strip" /\ ~req.include_audio /\ env.ffmpeg /\ env.ffprobe
    \/ pc = "reg_strip" /\ ~req.include_audio /\ env.ffmpeg /\ env.ffprobe
          /\ GlobVideos(dir) # {}
    \/ pc = "pf_convert" /\ req.output_format # "mp4" /\ env.ffmpeg
          /\ final_path.ext # req.output_format
    \/ pc = "reg_convert" /\ env.ffmpeg
          /\ \E f \in Latest(GlobVideos(dir)) : f.ext # desired_format

Interrupt ==
    /\ InFlight
    /\ \E leaves \in BOOLEAN :
          dir' = IF pc \in FetchPcs
                 THEN AfterFailedFetch(dir, FetchPrefix, FetchStem, leaves)
                 ELSE dir
    /\ trace' = Append(trace, Ev("interrupt", FALSE))
    /\ pc' = "cancelled"
    /\ result' = "cancelled"
    /\ UNCHANGED <<made_dirs, info_result>>
    /\ UNCHANGED <<req, env, clock, strategy, temp_file, final_path,
                   desired_format, fetches, stages, playlist_dir>>

Next ==
    \/ Start
    \/ AudioFetch
    \/ RegFetch
    \/ RegStrip
    \/ RegConvert
    \/ IgFetch
    \/ TtFetch
    \/ TtTitle
    \/ PlatformDownscale
    \/ PlatformStrip
    \/ PlatformConvert
    \/ PlStart
    \/ PlFetch
    \/ Interrupt

Spec == Init /\ [][Next]_vars

(***************************************************************************)
(* The downscale stage on its own: FFmpegUtils.downscale_video run on an   *)
(* artifact and then run again on its own output.                          *)
(***************************************************************************)
InName == Name("", "in", "mp4")
Out1Name == Name("", "out1", "mp4")
Out2Name == Name("", "out2", "mp4")
\* the heights of the artifacts the stage is run on
StageHeights == {144, 360, 480, 720, 1080}

\* downscale_video(input, output, target_height); fixes dir', clock',
\* trace' and stages'
downscale_video(input, output, target_height) ==
    LET f == Lookup(dir, input) IN
    IF ~env.ffmpeg
    THEN StageUnchanged(trace, St("downscale", "failed"))
    ELSE \E raises \in ProbeRaises(f), ok \in TranscodeOk(f) :
            LET info == get_video_info(env.ffprobe, raises, f)
                plan == DownscalePlan(env.ffmpeg, info, target_height)
                tr1 == IF env.ffprobe THEN Append(trace, Ev("probe", info.ok))
                       ELSE trace
            IN IF plan = "copy" \/ ok
               THEN /\ dir' = WriteFile(dir, DownscaleOutput(f, output, plan,
                                            target_height, clock))
                    /\ clock' = clock + 1
                    /\ trace' = Append(tr1, IF plan = "copy"
                                            THEN Ev("copyfile", TRUE)
                                            ELSE Ev("scale", TRUE))
                    /\ stages' = Append(stages, St("downscale",
                                   IF plan = "copy" THEN "skipped"
                                   ELSE "fallback"))
               ELSE StageUnchanged(Append(tr1, Ev("scale", FALSE)),
                                   St("downscale", "failed"))

StageInit ==
    /\ req \in [url : {[prefixOk |-> TRUE, domains |-> {"tiktok.com"}]},
                resolution : Resolutions \ {"best"},
                include_audio : {TRUE}, output_format : {"mp4"},
                kind : {"video"}]
    /\ env \in [ffmpeg : BOOLEAN, ffprobe : BOOLEAN]
    /\ \E h \in StageHeights, audio \in BOOLEAN :
          dir = {MkFile(InName, audio, h, 0, "job")}
    /\ clock = 1
    /\ pc = "stage_first"
    /\ result = "pending"
    /\ strategy = 1
    /\ temp_file = InName
    /\ final_path = Out1Name
    /\ desired_format = ""
    /\ fetches = << >>
    /\ trace = << >>
    /\ stages = << >>
    /\ playlist_dir = {}
    /\ made_dirs = {}
    /\ info_result = NoInfo

\* the stage run on the artifact
StageFirst ==
    /\ pc = "stage_first"
    /\ downscale_video(InName, Out1Name, ResHeight[req.resolution])
    /\ pc' = "stage_second"
    /\ UNCHANGED <<made_dirs, info_result>>
    /\ UNCHANGED <<req, env, result, strategy, temp_file, final_path,
                   desired_format, fetches, playlist_dir>>

\* the stage run again on the output of the first run
StageSecond ==
    /\ pc = "stage_second"
    /\ Exists(dir, Out1Name)
    /\ downscale_video(Out1Name, Out2Name, ResHeight[req.resolution])
    /\ pc' = "stage_done"
    /\ UNCHANGED <<made_dirs, info_result>>
    /\ UNCHANGED <<req, env, result, strategy, temp_file, final_path,
                   desired_format, fetches, playlist_dir>>

StageNext == StageFirst \/ StageSecond

SpecDownscale == StageInit /\ [][StageNext]_vars

(***************************************************************************)
(* The audio-strip stage step by step: _remove_audio_from_specific_file    *)
(* (the same statements in _remove_audio_from_downloaded_files) with each  *)
(* file-system call as a step of its own, and with the failure of such a   *)
(* call (an OSError caught at line 703, or the process being stopped).     *)
(***************************************************************************)
StripName == Name("", "T", "mp4")

StripInit ==
    /\ req \in [url : {[prefixOk |-> TRUE, domains |-> {"youtube.com"}]},
                resolution : {"best"}, include_audio : {FALSE},
                output_format : Formats, kind : {"video"}]
    /\ env \in [ffmpeg : BOOLEAN, ffprobe : BOOLEAN]
    /\ \E h \in StageHeights, audio \in BOOLEAN :
          dir = {MkFile(StripName, audio, h, 0, "job")}
    /\ clock = 1
    /\ pc = "strip_probe"
    /\ result = "pending"
    /\ strategy = 1
    /\ temp_file = NoFile
    /\ final_path = StripName
    /\ desired_format = ""
    /\ fetches = << >>
    /\ trace = << >>
    /\ stages = << >>
    /\ playlist_dir = {}
    /\ made_dirs = {}
    /\ info_result = NoInfo

\* lines 672-683: availability check and probe
StripProbe ==
    /\ pc = "strip_probe"
    /\ LET f == Lookup(dir, final_path) IN
       IF ~env.ffmpeg
       THEN /\ trace' = trace
            /\ stages' = Append(stages, St("strip", "failed"))
            /\ pc' = "strip_end"
       ELSE \E raises \in ProbeRaises(f) :
               LET info == get_video_info(env.ffprobe, raises, f) IN
               /\ trace' = IF env.ffprobe
                            THEN Append(trace, Ev("probe", info.ok))
                            ELSE trace
               /\ IF ~info.ok \/ ~info.audio
                  THEN /\ stages' = Append(stages, St("strip", "skipped"))
                       /\ pc' = "strip_end"
                  ELSE /\ stages' = stages
                       /\ pc' = "strip_transcode"
    /\ UNCHANGED <<made_dirs, info_result>>
    /\ UNCHANGED <<req, env, dir, clock, result, strategy, temp_file,
                   final_path, desired_format, fetches, playlist_dir>>

\* lines 688-691 and 699-701: the transcode into <stem>_no_audio
StripTranscode ==
    /\ pc = "strip_transcode"
    /\ LET f == Lookup(dir, final_path) IN
       \E ok \in TranscodeOk(f) :
          /\ trace' = Append(trace, Ev("strip", ok))
          /\ IF ok
             THEN /\ dir' = WriteFile(dir, MkFile(WithNoAudioStem(final_path),
                                          FALSE, f.height, clock, f.origin))
                  /\ clock' = clock + 1
                  /\ stages' = stages
                  /\ pc' = "strip_unlink"
             ELSE /\ dir' = dir
                  /\ clock' = clock
                  /\ stages' = Append(stages, St("strip", "failed"))
                  /\ pc' = "strip_end"
    /\ UNCHANGED <<made_dirs, info_result>>
    /\ UNCHANGED <<req, env, result, strategy, temp_file, final_path,
                   desired_format, fetches, playlist_dir>>

\* line 695: file_path.unlink()
StripUnlink ==
    /\ pc = "strip_unlink"
    /\ dir' = Unlink(dir, final_path)
    /\ pc' = "strip_rename"
    /\ UNCHANGED <<made_dirs, info_result>>
    /\ UNCHANGED <<req, env, clock, result, strategy, temp_file, final_path,
                   desired_format, fetches, trace, stages, playlist_dir>>

\* lines 696-698: output_path.rename(file_path)
StripRename ==
    /\ pc = "strip_rename"
    /\ dir' = Rename(dir, WithNoAudioStem(final_path), final_path)
    /\ stages' = Append(stages, St("strip", "fast"))
    /\ pc' = "strip_end"
    /\ UNCHANGED <<made_dirs, info_result>>
    /\ UNCHANGED <<req, env, clock, result, strategy, temp_file, final_path,
                   desired_format, fetches, trace, playlist_dir>>

\* the file-system call about to be made fails (lines 703-705) or the
\* process is stopped before it: the stage ends with the files as they are
StripFault ==
    /\ pc \in {"strip_unlink", "strip_rename"}
    /\ stages' = Append(stages, St("strip", "failed"))
    /\ pc' = "strip_end"
    /\ UNCHANGED <<made_dirs, info_result>>
    /\ UNCHANGED <<req, env, dir, clock, result, strategy, temp_file,
                   final_path, desired_format, fetches, trace, playlist_dir>>

StripNext ==
    \/ StripProbe
    \/ StripTranscode
    \/ StripUnlink
    \/ StripRename
    \/ StripFault

SpecStrip == StripInit /\ [][StripNext]_vars

(***************************************************************************)
(* download_with_options with exceptions.  An Exception (an OSError of     *)
(* subprocess.run, unlink, rename or stat) is raised at the current        *)
(* position and caught by the innermost handler around it.                 *)
(***************************************************************************)
\* the handler of download_with_options (lines 179-181) and of
\* _download_audio_only (lines 506-508): return False
outer_except_mut == "success"
outer_except == "failure"

FaultInit ==
    /\ req \in VideoRequests \cup AudioRequests
    /\ env \in [ffmpeg : BOOLEAN, ffprobe : BOOLEAN]
    /\ dir = {}
    /\ clock = MaxOld + 1
    /\ pc = "start"
    /\ result = "pending"
    /\ strategy = 1
    /\ temp_file = NoFile
    /\ final_path = NoFile
    /\ desired_format = ""
    /\ fetches = << >>
    /\ trace = << >>
    /\ stages = << >>
    /\ playlist_dir = {}
    /\ made_dirs = {}
    /\ info_result = NoInfo

\* subprocess.run raises in the audio or the regular download: the outer
\* handler returns False
FaultFetch ==
    /\ pc \in {"audio", "reg_fetch"}
    /\ trace' = Append(trace, Ev("raise_outer", FALSE))
    /\ pc' = "done"
    /\ result' = outer_except
    /\ UNCHANGED <<req, env, dir, clock, strategy, temp_file, final_path,
                   desired_format, fetches, stages, playlist_dir, made_dirs,
                   info_result>>

\* subprocess.run raises inside one Instagram strategy (handler at lines
\* 261-263: continue), or inside the TikTok path (handler at lines
\* 461-463: return False, then the regular download)
FaultStrategy ==
    /\ pc \in {"ig_fetch", "tt_fetch"}
    /\ trace' = Append(trace, Ev("raise_path", FALSE))
    /\ IF pc = "ig_fetch" /\ strategy < Len(FormatStrategies)
       THEN /\ strategy' = strategy + 1
            /\ pc' = pc
       ELSE /\ strategy' = strategy
            /\ pc' = "reg_fetch"
    /\ UNCHANGED <<req, env, dir, clock, result, temp_file, final_path,
                   desired_format, fetches, stages, playlist_dir, made_dirs,
                   info_result>>

\* temp_file.rename raises where the downscale is not available (lines
\* 320-321, 444): the handler of the platform path returns False and
\* download_with_options goes on with the regular download
FaultRename ==
    /\ pc = "pf_downscale"
    /\ ~env.ffmpeg
    /\ trace' = Append(trace, Ev("raise_path", FALSE))
    /\ pc' = "reg_fetch"
    /\ UNCHANGED <<req, env, dir, clock, result, strategy, temp_file,
                   final_path, desired_format, fetches, stages,
                   playlist_dir, made_dirs, info_result>>

\* an exception inside a post-processing helper, before it has changed the
\* directory: the helper's own handler returns False (lines 638-640,
\* 703-705, 555-557, 740-742) and the job goes on
FaultStage ==
    /\ \/ pc \in {"pf_strip", "reg_strip"} /\ ~req.include_audio
             /\ env.ffmpeg
       \/ pc = "pf_convert" /\ req.output_format # "mp4"
    /\ trace' = Append(trace, Ev("raise_stage", FALSE))
    /\ stages' = Append(stages,
                        St(IF pc \in {"pf_strip", "reg_strip"}
                           THEN "strip" ELSE "convert", "failed"))
    /\ pc' = CASE pc = "pf_strip" -> "pf_convert"
               [] pc = "reg_strip" -> "reg_convert"
               [] OTHER -> "done"
    /\ result' = IF pc = "pf_convert" THEN "success" ELSE result
    /\ UNCHANGED <<req, env, dir, clock, strategy, temp_file, final_path,
                   desired_format, fetches, playlist_dir, made_dirs,
                   info_result>>

\* stat raises in the conversion decision of the regular path (lines
\* 156-161), which is not inside a helper: the outer handler returns False
FaultDecision ==
    /\ pc = "reg_convert"
    /\ desired_format # "" /\ GlobVideos(dir) # {}
    /\ trace' = Append(trace, Ev("raise_outer", FALSE))
    /\ pc' = "done"
    /\ result' = outer_except
    /\ UNCHANGED <<req, env, dir, clock, strategy, temp_file, final_path,
                   desired_format, fetches, stages, playlist_dir, made_dirs,
                   info_result>>

FaultNext ==
    \/ Start
    \/ AudioFetch
    \/ RegFetch
    \/ RegStrip
    \/ RegConvert
    \/ IgFetch
    \/ TtFetch
    \/ TtTitle
    \/ PlatformDownscale
    \/ PlatformStrip
    \/ PlatformConvert
    \/ FaultFetch
    \/ FaultStrategy
    \/ FaultRename
    \/ FaultStage
    \/ FaultDecision

SpecFault == FaultInit /\ [][FaultNext]_vars

(***************************************************************************)
(* Playlist runs one after the other (the loop of VeloraApp.run calling    *)
(* handle_download_playlist): each run validates, creates its              *)
(* subdirectory and runs the fetch tool once, while time passes in ticks.  *)
(* The files of the runs are left out.                                     *)
(***************************************************************************)
BatchRuns == Cardinality({i \in DOMAIN trace : trace[i].op = "mkdir"})

BatchInit ==
    /\ req \in PlaylistRequests
    /\ env \in [ffmpeg : BOOLEAN, ffprobe : BOOLEAN]
    /\ dir = {}
    /\ clock = 0
    /\ pc = "start"
    /\ result = "pending"
    /\ strategy = 1
    /\ temp_file = NoFile
    /\ final_path = NoFile
    /\ desired_format = ""
    /\ fetches = << >>
    /\ trace = << >>
    /\ stages = << >>
    /\ playlist_dir = {}
    /\ made_dirs = {}
    /\ info_result = NoInfo

\* time passes
BatchTick ==
    /\ clock < MaxTick
    /\ clock' = clock + 1
    /\ UNCHANGED <<req, env, dir, pc, result, strategy, temp_file, final_path,
                   desired_format, fetches, trace, stages, playlist_dir,
                   made_dirs, info_result>>

\* the fetch-tool run of _download_playlist_video_with_options
BatchFetch ==
    /\ pc = "pl_fetch"
    /\ \E rc \in ExitCodes : \E err \in ErrKinds(rc) :
          /\ fetches' = Append(fetches,
                Cmd("--yes-playlist", "playlist_index_title",
                    playlist_format_string(req.resolution,
                                           req.include_audio),
                    PlaylistOptWords(req.output_format),
                    PlaylistContainer(req.output_format), rc, err))
          /\ trace' = Append(trace, Ev("fetch", rc = 0))
          /\ result' = IF rc = 0 THEN "success" ELSE "failure"
    /\ pc' = "done"
    /\ UNCHANGED <<req, env, dir, clock, strategy, temp_file, final_path,
                   desired_format, stages, playlist_dir, made_dirs,
                   info_result>>

\* the user starts the next playlist download
BatchAgain ==
    /\ pc = "done"
    /\ BatchRuns < MaxRuns
    /\ pc' = "start"
    /\ result' = "pending"
    /\ UNCHANGED <<req, env, dir, clock, strategy, temp_file, final_path,
                   desired_format, fetches, trace, stages, playlist_dir,
                   made_dirs, info_result>>

BatchNext ==
    \/ PlStart
    \/ BatchFetch
    \/ BatchAgain
    \/ BatchTick

SpecBatch == BatchInit /\ [][BatchNext]_vars

(***************************************************************************)
(* Info lookups (get_video_info, get_playlist_info) and the validation at  *)
(* the head of the download functions.  A text is a sequence of fragments; *)
(* a pattern occurs in a text when it is one of its fragments.             *)
(***************************************************************************)
Blank == " "
StderrWords == {"is not a valid URL", "Unsupported URL", "Video unavailable",
                "Private video", "Private", "unavailable", "not found",
                "404", "ERROR", Blank}
Stderrs == UNION {[1..n -> StderrWords] : n \in 0..MaxWords}

\* pattern in text
Contains(text, pattern) ==
    \/ \E i \in DOMAIN text : text[i] = pattern
    \/ /\ pattern = "Private"
       /\ \E i \in DOMAIN text : text[i] = "Private video"
    \/ /\ pattern = "unavailable"
       /\ \E i \in DOMAIN text : text[i] = "Video unavailable"

\* str.strip
RECURSIVE lstrip(_)
lstrip(text) ==
    IF text # << >> /\ Head(text) = Blank THEN lstrip(Tail(text)) ELSE text
RECURSIVE rstrip(_)
rstrip(text) ==
    IF text # << >> /\ text[Len(text)] = Blank
    THEN rstrip(SubSeq(text, 1, Len(text) - 1)) ELSE text
strip(text) == rstrip(lstrip(text))

Info(error, message) == [error |-> error, message |-> message]

\* get_video_info, except subprocess.CalledProcessError
video_info_error_mut(stderr) ==
    IF stderr # << >>
    THEN LET error_msg == strip(stderr) IN
         IF Contains(error_msg, "is not a valid URL")
               \/ Contains(error_msg, "Unsupported URL")
         THEN Info("invalid_url", <<"Invalid video URL">>)
         ELSE IF Contains(error_msg, "not found")
                    \/ Contains(error_msg, "404")
         THEN Info("not_found", <<"Video not found">>)
         ELSE IF Contains(error_msg, "Video unavailable")
                    \/ Contains(error_msg, "Private video")
         THEN Info("unavailable", <<"Video is unavailable or private">>)
         ELSE Info("unknown", <<"Could not access video: ">> \o error_msg)
    ELSE Info("unknown", <<"Could not get video info">>)
video_info_error(stderr) ==
    IF stderr # << >>
    THEN LET error_msg == strip(stderr) IN
         IF Contains(error_msg, "is not a valid URL")
               \/ Contains(error_msg, "Unsupported URL")
         THEN Info("invalid_url", <<"Invalid video URL">>)
         ELSE IF Contains(error_msg, "Video unavailable")
                    \/ Contains(error_msg, "Private video")
         THEN Info("unavailable", <<"Video is unavailable or private">>)
         ELSE IF Contains(error_msg, "not found")
                    \/ Contains(error_msg, "404")
         THEN Info("not_found", <<"Video not found">>)
         ELSE Info("unknown", <<"Could not access video: ">> \o error_msg)
    ELSE Info("unknown", <<"Could not get video info">>)

\* get_playlist_info, except subprocess.CalledProcessError
playlist_info_error(stderr) ==
    IF stderr # << >>
    THEN LET error_msg == strip(stderr) IN
         IF Contains(error_msg, "is not a valid URL")
               \/ Contains(error_msg, "Unsupported URL")
         THEN Info("invalid_url", <<"Invalid playlist URL">>)
         ELSE IF Contains(error_msg, "Private")
                    \/ Contains(error_msg, "unavailable")
         THEN Info("unavailable", <<"Playlist is unavailable or private">>)
         ELSE Info("unknown", <<"Could not access playlist: ">> \o error_msg)
    ELSE Info("unknown", <<"Could not get playlist info">>)

\* the outcomes of running the fetch tool for a lookup: it exits 0 with a
\* JSON document, with no output or with unparsable output, it exits
\* non-zero, or it cannot be started
LookupOutcomes == {"ok", "empty", "bad_json", "exit", "oserror"}
InfoCmd(mode, rc, stderr) ==
    [mode |-> mode, opts |-> {"--print-json", "--no-warnings"},
     rc |-> rc, stderr |-> stderr]

InfoInit ==
    /\ req \in Requests
    /\ env \in [ffmpeg : {TRUE}, ffprobe : {TRUE}]
    /\ dir = {}
    /\ clock = 0
    \* through a handler of the application, or a direct call of the
    \* download function
    /\ pc \in {"info", "start"}
    /\ result = "pending"
    /\ strategy = 1
    /\ temp_file = NoFile
    /\ final_path = NoFile
    /\ desired_format = ""
    /\ fetches = << >>
    /\ trace = << >>
    /\ stages = << >>
    /\ playlist_dir = {}
    /\ made_dirs = {}
    /\ info_result = NoInfo

\* the handlers' test of the lookup result: if info and 'error' in info
AfterLookup_mut(info) == "start"
AfterLookup(info) == IF info.error # "" THEN "info_failed" ELSE "start"

\* the info lookup and what the handler does with its result
LookupStep(mode, title) ==
    /\ IF ~is_valid_url(req.url)
       THEN /\ info_result' = Info("invalid_url", <<"Invalid ", title, " URL">>)
            /\ fetches' = fetches
       ELSE \E out \in LookupOutcomes, stderr \in Stderrs :
              /\ out # "exit" => stderr = << >>
              /\ out = "empty" => mode = "--flat-playlist"
              /\ fetches' = IF out = "oserror" THEN fetches
                            ELSE Append(fetches,
                                   InfoCmd(mode, IF out = "exit" THEN 1 ELSE 0,
                                           stderr))
              /\ info_result' =
                   CASE out = "ok" -> Info("", <<title>>)
                     [] out = "empty" ->
                          Info("empty", <<"No playlist information found">>)
                     [] out = "exit" ->
                          IF mode = "--no-download"
                          THEN video_info_error(stderr)
                          ELSE playlist_info_error(stderr)
                     [] OTHER ->
                          Info("unknown", <<"Could not get ", title, " info: ",
                                            "exception">>)
    /\ pc' = AfterLookup(info_result')
    /\ UNCHANGED <<req, env, dir, clock, result, strategy, temp_file,
                   final_path, desired_format, trace, stages, playlist_dir,
                   made_dirs>>

\* handle_download_video, handle_download_audio: show_video_info
VideoInfoLookup ==
    /\ pc = "info"
    /\ req.kind \in {"video", "audio"}
    /\ LookupStep("--no-download", "video")

\* handle_download_playlist: get_playlist_info
PlaylistInfoLookup ==
    /\ pc = "info"
    /\ req.kind = "playlist"
    /\ LookupStep("--flat-playlist", "playlist")

InfoNext ==
    \/ VideoInfoLookup
    \/ PlaylistInfoLookup
    \/ Start
    \/ PlStart

SpecInfo == InfoInit /\ [][InfoNext]_vars

(***************************************************************************)
(* The interactive video and audio handlers: URL entry, info lookup, the   *)
(* retry question after an info error, and the call of                     *)
(* download_with_options.  Each turn of the handler's loop starts afresh.  *)
(***************************************************************************)
Retries == Cardinality({i \in DOMAIN trace : trace[i].op = "retry"})

HandlerInit ==
    /\ req \in VideoRequests \cup AudioRequests
    /\ env \in [ffmpeg : {TRUE}, ffprobe : {TRUE}]
    /\ dir = {}
    /\ clock = 0
    /\ pc = "info"
    /\ result = "pending"
    /\ strategy = 1
    /\ temp_file = NoFile
    /\ final_path = NoFile
    /\ desired_format = ""
    /\ fetches = << >>
    /\ trace = << >>
    /\ stages = << >>
    /\ playlist_dir = {}
    /\ made_dirs = {}
    /\ info_result = NoInfo

\* confirm_action("Would you like to try with a different URL?"): the
\* handler returns, or goes back to get_url_input, where the user enters
\* another URL or nothing
RetryPrompt ==
    /\ pc = "info_failed"
    /\ \/ /\ pc' = "returned"
          /\ UNCHANGED <<req, trace, fetches, info_result>>
       \/ /\ Retries < MaxRetries
          /\ trace' = Append(trace, Ev("retry", TRUE))
          /\ fetches' = << >>
          /\ info_result' = NoInfo
          /\ \/ pc' = "returned" /\ req' = req
             \/ /\ pc' = "info"
                /\ \E url \in Urls : req' = [req EXCEPT !.url = url]
    /\ UNCHANGED <<env, dir, clock, result, strategy, temp_file, final_path,
                   desired_format, stages, playlist_dir, made_dirs>>

HandlerNext ==
    \/ VideoInfoLookup
    \/ RetryPrompt
    \/ Start

SpecHandler == HandlerInit /\ [][HandlerNext]_vars

(***************************************************************************)
(* Properties.                                                             *)
(***************************************************************************)
StageNames == [i \in DOMAIN stages |-> stages[i].stage]
TranscodeOps == {"scale", "copyfile", "strip", "conv_copy", "conv_encode"}
ConvOps == {"conv_copy", "conv_encode"}
AllFetchesFailed ==
    /\ fetches # << >>
    /\ \A i \in DOMAIN fetches : fetches[i].rc # 0

\* C1: strategy exhaustion.  When every fetch-tool invocation of a finished
\* job exited non-zero, the job reports failure and no temp_-prefixed file
\* is left in the download directory.
C1_StrategyExhaustion ==
    (pc = "done" /\ req.kind = "video" /\ AllFetchesFailed)
        => (result = "failure" /\ GlobTemp(dir) = {})

\* C2: degrade gracefully on conversion.  A step of a single-item job in
\* which every attempt of the container-convert stage (stream copy and
\* re-encode) fails changes no file, so the pre-conversion artifact stays
\* the final file, reports the conversion as failed and ends the job with
\* success.
C2_DegradeGracefully ==
    [][(/\ req.kind = "video"
        /\ pc \in {"reg_convert", "pf_convert"}
        /\ Len(trace') > Len(trace)
        /\ \A i \in (Len(trace) + 1)..Len(trace') :
              trace'[i].op \in ConvOps /\ ~trace'[i].ok)
       => (/\ result' = "success"
           /\ pc' = "done"
           /\ dir' = dir
           /\ \E f \in dir' : f.origin = "job" /\ f.pre = ""
           /\ stages' = Append(stages, St("convert", "failed")))]_vars

C2_Witness ==
    /\ pc = "done"
    /\ req.kind = "video"
    /\ result = "success"
    /\ Len(trace) >= 3
    /\ trace[Len(trace) - 1] = Ev("conv_copy", FALSE)
    /\ trace[Len(trace)] = Ev("conv_encode", FALSE)
    /\ \E f \in dir : f.origin = "job" /\ f.pre = ""

C4_AcquisitionFailureAborts ==
    (/\ pc \notin {"start", "cancelled"}
     /\ req.kind = "video"
     /\ fetches # << >>
     /\ fetches[Len(fetches)].template = "title"
     /\ fetches[Len(fetches)].rc # 0)
        => /\ pc = "done"
           /\ result = "failure"
           /\ stages = << >>
           /\ \A i \in DOMAIN trace : trace[i] = Ev("fetch", FALSE)

C4_Witness ==
    /\ pc = "done"
    /\ req.kind = "video"
    /\ result = "failure"
    /\ Len(fetches) = 5
    /\ fetches[5].template = "title"
    /\ fetches[5].rc # 0

\* C5 as stated: an audio-only job whose extraction fetch exited non-zero
\* still reports success, with the audio file left.
C5_AudioFallback ==
    (pc = "done" /\ req.kind = "audio" /\ fetches # << >>
        /\ fetches[1].rc # 0)
        => /\ result = "success"
           /\ \E f \in dir : f.ext = req.output_format

\* C5 amended: an audio-only job whose extraction fetch exited non-zero
\* makes no further fetch-tool or transcoder invocation, creates no audio
\* file and reports failure.
C5_NoAudioFallback ==
    (pc = "done" /\ req.kind = "audio" /\ fetches # << >>
        /\ fetches[1].rc # 0)
        => /\ result = "failure"
           /\ Len(fetches) = 1
           /\ trace = <<Ev("fetch", FALSE)>>
           /\ stages = << >>
           /\ ~\E f \in dir : f.ext = req.output_format

C5_Witness ==
    /\ pc = "done"
    /\ req.kind = "audio"
    /\ Len(fetches) = 1
    /\ fetches[1].rc # 0
    /\ "-x" \in fetches[1].opts
    /\ result = "failure"

\* C6: cancellation.  Once a job is cancelled by a user interrupt, no file
\* is left under a provisional (temp_) name in the download directory.
C6_CancellationCleansUp ==
    result = "cancelled" => GlobTemp(dir) = {}

\* C7: on a platform marked needs-downscaling, the first fetch invocation
\* of a height-tier job carries a selector with no height bound, and every
\* downscale of the job (probe-and-copy or scale transcode) comes after a
\* fetch invocation that exited 0.
C7_BestFirstThenDownscale ==
    (req.kind = "video" /\ is_valid_url(req.url)
        /\ Dispatch(req.url, req.resolution, FALSE)
              \in {"ig_fetch", "tt_fetch"})
        => /\ req.resolution # "best"
           /\ fetches # << >> => ~HasHeightBound(fetches[1].sel)
           /\ fetches # << >> => fetches[1].template
                                    \in {"temp_title", "temp_tiktok"}
           /\ \A i \in DOMAIN trace :
                 trace[i].op \in {"scale", "copyfile"}
                    => \E j \in 1..(i - 1) : trace[j] = Ev("fetch", TRUE)
           /\ \A i \in DOMAIN stages :
                 stages[i].stage = "downscale"
                    => \E j \in DOMAIN trace : trace[j] = Ev("fetch", TRUE)

C7_Witness ==
    /\ pc = "done"
    /\ req.kind = "video"
    /\ "instagram.com" \in req.url.domains
    /\ req.resolution = "480p"
    /\ Len(fetches) = 2
    /\ fetches[1].rc # 0
    /\ fetches[2].rc = 0
    /\ \E i \in DOMAIN trace : trace[i] = Ev("scale", TRUE)

\* C8: for a request with resolution "best", no selector passed to the
\* fetch tool carries a height bound, in single-item and playlist jobs.
C8_BestNeverBounded ==
    req.resolution = "best"
        => \A i \in DOMAIN fetches : ~HasHeightBound(fetches[i].sel)

C8_Witness ==
    /\ pc = "done"
    /\ req.resolution = "best"
    /\ req.kind = "video"
    /\ ~req.include_audio
    /\ Len(fetches) = 1
    /\ fetches[1].rc = 0
    /\ fetches[1].sel # NoSelector

\* C9: downscale idempotence.  For an artifact whose height is at or below
\* the target, the stage run twice never invokes the scale transcode, and
\* both outputs keep the height of the input.
C9_DownscaleIdempotent ==
    (env.ffmpeg /\ Lookup(dir, InName).height <= ResHeight[req.resolution])
        => /\ \A i \in DOMAIN trace : trace[i].op # "scale"
           /\ Exists(dir, Out1Name)
                 => Lookup(dir, Out1Name).height = Lookup(dir, InName).height
           /\ Exists(dir, Out2Name)
                 => Lookup(dir, Out2Name).height = Lookup(dir, InName).height

\* C10: the downscale stage never upscales.  Whatever the probe returns,
\* no output is higher than the input, and the scale transcode is run only
\* on an input strictly higher than the target.
C10_NeverUpscale ==
    /\ Exists(dir, Out1Name)
          => Lookup(dir, Out1Name).height <= Lookup(dir, InName).height
    /\ (pc = "stage_second" /\ \E i \in DOMAIN trace : trace[i].op = "scale")
          => Lookup(dir, InName).height > ResHeight[req.resolution]

C12_PlainBestFallback ==
    \A i \in DOMAIN fetches :
        (req.kind = "video" /\ fetches[i].template \in {"title", "temp_tiktok"})
            => /\ fetches[i].sel # NoSelector
               /\ fetches[i].sel[Len(fetches[i].sel)] = <<Term("best", 0, "")>>

InlineFlags == {"--remux-video", "--recode-video"}

\* C13: no fetch-tool command of a video or playlist job carries an inline
\* container-conversion flag (--remux-video or --recode-video), whatever
\* the requested output format.
C13_NoInlineConversion ==
    \A i \in DOMAIN fetches : fetches[i].opts \cap InlineFlags = {}

\* the files with extension mov in the download and playlist directories
MovFiles(d, pd) == {f \in d \cup pd : f.ext = "mov"}

\* C14: for a mov request no fetch-tool command carries an inline remux or
\* recode flag; a mov file comes into being only in a step of the
\* container-convert stage in which a conversion attempt succeeded; and a
\* single-item mov job that ends with success has entered that stage.
C14_MovOnlyByConversion ==
    [][/\ req.output_format = "mov"
          => \A i \in DOMAIN fetches' :
                /\ fetches'[i].opts \cap InlineFlags = {}
                /\ fetches'[i].container = ""
       /\ MovFiles(dir', playlist_dir') # MovFiles(dir, playlist_dir)
          => /\ req.output_format = "mov"
             /\ pc \in {"reg_convert", "pf_convert", "pl_fetch"}
             /\ \E i \in (Len(trace) + 1)..Len(trace') :
                   trace'[i].op \in ConvOps /\ trace'[i].ok
       /\ (req.output_format = "mov" /\ req.kind = "video"
             /\ pc' = "done" /\ result' = "success")
          => \E i \in DOMAIN stages' : stages'[i].stage = "convert"]_vars

C14_Witness ==
    /\ pc = "done"
    /\ result = "success"
    /\ req.kind = "video"
    /\ req.output_format = "mov"
    /\ fetches # << >>
    /\ fetches[Len(fetches)].rc = 0
    /\ fetches[Len(fetches)].template = "title"
    /\ \E f \in dir : f.ext = "mov" /\ f.origin = "job"
    /\ \E i \in DOMAIN trace : trace[i] = Ev("conv_encode", TRUE)

\* the job runs the strategy list of the Instagram path
OnInstagramPath ==
    /\ req.kind = "video"
    /\ is_valid_url(req.url)
    /\ Dispatch(req.url, req.resolution, FALSE) = "ig_fetch"

\* C15: the strategies of the Instagram path are invoked in list order, a
\* strategy is invoked only after every earlier one exited non-zero, and
\* once a strategy exited 0 the file chosen as the artifact is the file
\* that strategy wrote (temp_<title> in a delivered container), not a
\* leftover of an earlier strategy.
C15_FirstSuccessTaken ==
    OnInstagramPath =>
        \A i \in DOMAIN fetches :
            fetches[i].template = "temp_title"
                => /\ i <= Len(FormatStrategies)
                   /\ fetches[i].sel = FormatStrategies[i]
                   /\ \A j \in 1..(i - 1) :
                         /\ fetches[j].template = "temp_title"
                         /\ fetches[j].rc # 0
                   /\ fetches[i].rc = 0
                         => /\ temp_file.pre = "temp_"
                            /\ temp_file.stem = "T"
                            /\ temp_file.ext \in SrcExts

\* C16: a fetch invocation of a single-item video job whose failure reads
\* as invalid_url is the last invocation of the job, while a strategy that
\* failed otherwise is followed by the next strategy of the list.
C16_InvalidUrlStops ==
    req.kind = "video" =>
        \A i \in DOMAIN fetches :
            /\ fetches[i].err = "invalid_url" => i = Len(fetches)
            /\ (/\ fetches[i].err = "unknown"
                /\ fetches[i].template = "temp_title"
                /\ i < Len(FormatStrategies)
                /\ pc \notin {"ig_fetch", "cancelled"}) => i < Len(fetches)

\* the files among which a platform path looks for its download
Candidates(d) == IF temp_file.stem \in {"tiktok", PartialStem["tiktok"]}
                 THEN GlobTikTok(d) ELSE GlobTemp(d)

\* C17: right after a successful platform fetch, the file selected as the
\* artifact is one with the most recent modification time among the
\* files matching the provisional pattern.
C17_NewestCandidateSelected ==
    (req.kind = "video" /\ pc \in {"tt_title", "pf_downscale"})
        => \E f \in Latest(Candidates(dir)) : NameOf(f) = temp_file

\* C18: whenever a strategy of the Instagram path is about to be invoked,
\* the download directory holds no provisional (temp_) file.
C18_CleanBeforeNextStrategy ==
    (req.kind = "video" /\ pc = "ig_fetch") => GlobTemp(dir) = {}

\* the readable media files the job's own acquisition led to
JobMedia(d) == {f \in d : f.origin = "job" /\ f.height # 0}

\* C19: once a post-processing stage of a single-item job has completed
\* (downscale, audio strip or container convert, succeeded or not), the
\* download directory holds exactly one copy of the job's media: a stage
\* that wrote a new file has deleted its input.  After a successful
\* playlist job every entry is present in exactly one file.
C19_OneCopyAfterEachStage ==
    /\ (req.kind = "video" /\ stages # << >>)
          => Cardinality(JobMedia(dir)) = 1
    /\ (req.kind = "playlist" /\ pc = "done" /\ result = "success")
          => \A i \in Entries :
                Cardinality({f \in playlist_dir : f.stem = EntryStems[i]}) = 1

C19_Witness ==
    /\ pc = "done"
    /\ req.kind = "video"
    /\ StageNames = <<"downscale", "strip", "convert">>
    /\ stages[1].result = "fallback"
    /\ stages[2].result = "fast"
    /\ stages[3].result \in {"fast", "fallback"}
    /\ ~Exists(dir, temp_file)
    /\ ~Exists(dir, final_path)
    /\ \E f \in dir : JobMedia(dir) = {f} /\ f.ext = req.output_format

\* C20: the audio-strip stage replaces the artifact atomically.  In every
\* state of the stage, between its file-system steps and after a failure
\* of one of them included, a media file exists at the artifact's path.
C20_AtomicReplace ==
    /\ Exists(dir, final_path)
    /\ Lookup(dir, final_path).height # 0

\* some fetch invocation of the job exited 0
AcquisitionSucceeded == \E i \in DOMAIN fetches : fetches[i].rc = 0

\* C21: with no transcoder binary, a finished job whose acquisition
\* succeeded reports success, has made no transcoder or probe invocation,
\* and has left none of its media files under a provisional (temp_) name.
C21_MissingTranscoderDegrades ==
    (~env.ffmpeg /\ pc = "done" /\ AcquisitionSucceeded)
        => /\ result = "success"
           /\ \A i \in DOMAIN trace :
                 trace[i].op \notin TranscodeOps \cup {"probe"}
           /\ \A f \in JobMedia(dir) : f.pre # "temp_"

\* C22: every playlist run gets a subdirectory of its own: the mkdir of a
\* run always creates a directory no earlier run has created, whatever
\* the times at which the runs start.
C22_DistinctBatchDirs ==
    \A i \in DOMAIN trace : trace[i].op = "mkdir" => trace[i].ok

\* C23: a finished playlist job reports failure only when no entry was
\* obtained (its outcome tells the entries that succeeded), and the entries
\* obtained are still post-processed when another entry has failed: for a
\* mov request with a transcoder, each obtained mp4 entry gets a conversion.
C23_EntryFailureDoesNotAbort ==
    (req.kind = "playlist" /\ pc = "done" /\ fetches # << >>)
        => /\ result = "failure" => playlist_dir = {}
           /\ (req.output_format = "mov" /\ env.ffmpeg
                  /\ \E f \in playlist_dir : f.ext = "mp4")
                 => \E i \in DOMAIN trace : trace[i].op \in ConvOps

\* a stage of the given name was entered by the job
StageEntered(name) == \E i \in DOMAIN stages : stages[i].stage = name

\* C24: a playlist job that finished with success has run, for its
\* entries, the stages a single-item job with the same request runs: the
\* audio strip when include_audio is false, the downscale for a bounded
\* resolution on a platform that needs it, and the container convert when
\* an entry is not in the requested format.
C24_PlaylistAppliesPipeline ==
    (req.kind = "playlist" /\ pc = "done" /\ result = "success")
        => /\ ~req.include_audio => StageEntered("strip")
           /\ Dispatch(req.url, req.resolution, FALSE)
                    \in {"ig_fetch", "tt_fetch"}
                 => StageEntered("downscale")
           /\ (\E f \in playlist_dir : f.ext # req.output_format)
                 => StageEntered("convert")

\* the error text of the failed lookup run
LookupStderr == fetches[Len(fetches)].stderr
\* a video info lookup whose fetch-tool run exited non-zero
VideoLookupFailed ==
    /\ pc = "info_failed"
    /\ req.kind \in {"video", "audio"}
    /\ fetches # << >>
    /\ fetches[Len(fetches)].rc # 0
InvalidPattern(text) ==
    Contains(text, "is not a valid URL") \/ Contains(text, "Unsupported URL")
UnavailablePattern(text) ==
    Contains(text, "Video unavailable") \/ Contains(text, "Private video")
NotFoundPattern(text) == Contains(text, "not found") \/ Contains(text, "404")

\* C25: a video info lookup whose fetch-tool run exited non-zero is
\* classified by the error text, in this order: an invalid or unsupported
\* URL pattern gives invalid_url, else a private or unavailable pattern
\* gives unavailable, else a not-found or 404 pattern gives not_found, else
\* unknown; an unknown result carries every non-blank fragment of the
\* error text in its message.
C25_ClassificationPrioritized ==
    VideoLookupFailed
        => /\ info_result.error =
                 (IF InvalidPattern(LookupStderr) THEN "invalid_url"
                  ELSE IF UnavailablePattern(LookupStderr) THEN "unavailable"
                  ELSE IF NotFoundPattern(LookupStderr) THEN "not_found"
                  ELSE "unknown")
           /\ info_result.error = "unknown"
                 => \A i \in DOMAIN LookupStderr :
                       LookupStderr[i] # Blank
                         => \E j \in DOMAIN info_result.message :
                               info_result.message[j] = LookupStderr[i]

\* an error text with both an unavailable and a not-found pattern was
\* classified as unavailable
C25_Witness ==
    /\ VideoLookupFailed
    /\ UnavailablePattern(LookupStderr)
    /\ NotFoundPattern(LookupStderr)
    /\ info_result.error = "unavailable"

\* C26: for a URL that fails the local shape validation, an info lookup
\* answers invalid_url and a download function answers failure, and in
\* either case no fetch-tool run has been made, no directory has been
\* created and no file has been written.
C26_InvalidUrlNoSideEffect ==
    (~req.url.prefixOk \/ req.url.domains = {})
        => /\ fetches = << >>
           /\ made_dirs = {}
           /\ dir = {} /\ playlist_dir = {}
           /\ pc \in {"info", "start", "info_failed", "done"}
           /\ pc = "info_failed" => info_result.error = "invalid_url"
           /\ pc = "done" => result = "failure"

\* download_with_options has rejected such a URL
C26_Witness ==
    /\ ~req.url.prefixOk
    /\ req.kind = "video"
    /\ pc = "done" /\ result = "failure"

\* C27: an audio_only job makes at most one fetch-tool run, exactly one
\* once it has finished with a valid URL; the run extracts audio (-x) into
\* the requested audio format and has no video selector; and the job
\* enters no stage and makes no probe or transcoder invocation, whatever
\* the resolution, include_audio and platform of the request.
C27_AudioOnlySingleFetch ==
    req.kind = "audio"
        => /\ pc \in {"start", "audio", "done", "cancelled"}
           /\ Len(fetches) <= 1
           /\ (pc = "done" /\ is_valid_url(req.url)) => Len(fetches) = 1
           /\ \A i \in DOMAIN fetches :
                 /\ {"-x", "--audio-format"} \subseteq fetches[i].opts
                 /\ fetches[i].container = req.output_format
                 /\ fetches[i].sel = NoSelector
           /\ stages = << >>
           /\ \A i \in DOMAIN trace : trace[i].op \in {"fetch", "interrupt"}

\* an audio job for a platform and resolution that need downscaling, with
\* include_audio false, has finished after its one fetch
C27_Witness ==
    /\ req.kind = "audio"
    /\ "instagram.com" \in req.url.domains
    /\ req.resolution = "480p"
    /\ ~req.include_audio
    /\ pc = "done" /\ result = "success"
    /\ Len(fetches) = 1

\* the step invokes the audio-strip transcode
StripInvoked ==
    /\ Len(trace') > Len(trace)
    /\ trace'[Len(trace')].op = "strip"
\* the step ends the audio-strip stage without a transcode
StripSkipped ==
    /\ Len(stages') > Len(stages)
    /\ stages'[Len(stages')] = St("strip", "skipped")
\* the files of earlier jobs are as they were
OldFilesKept ==
    \A g \in dir : g.origin = "old" => g \in dir'

\* C28: a step invokes the audio-strip transcode only when include_audio is
\* false and the probe just made reported an audio stream of the job's own
\* artifact (the job has a media file with audio, and no file of an
\* earlier job is touched); with include_audio true the media of the job
\* never lose their audio; and a step that skips the strip leaves the
\* directory as it was.
C28_StripOnlyWhenAudioPresent ==
    [][/\ StripInvoked
            => /\ ~req.include_audio
               /\ trace'[Len(trace') - 1] = Ev("probe", TRUE)
               /\ \E f \in JobMedia(dir) : f.audio
               /\ OldFilesKept
       /\ req.include_audio => \A f \in JobMedia(dir') : f.audio
       /\ StripSkipped => dir' = dir]_vars

\* the step attempts a container conversion
ConvertAttempted ==
    /\ Len(stages') > Len(stages)
    /\ stages'[Len(stages')].stage = "convert"
    /\ stages'[Len(stages')].result # "skipped"
\* the artifact the container-convert stage of the job is about
ConvertArtifact ==
    IF pc = "pf_convert" THEN {f \in dir : NameOf(f) = final_path}
    ELSE JobMedia(dir)

\* C29: the step of the container-convert stage, on the regular, the
\* Instagram and the TikTok path, attempts a conversion exactly when the
\* container of the job's artifact differs from the requested one.
C29_ConvertDecidedByContainer ==
    [][(pc \in {"pf_convert", "reg_convert"} /\ pc' = "done")
          => \A f \in ConvertArtifact :
                (f.ext # req.output_format) <=> ConvertAttempted]_vars

\* C30: in the conversion attempts of a job, for every target container, a
\* re-encode comes directly after a stream copy that failed (so it is never
\* the first attempt), and in a finished job every failed stream copy is
\* directly followed by a re-encode.
C30_CopyBeforeReencode ==
    \A i \in DOMAIN trace :
        /\ trace[i].op = "conv_encode"
              => i > 1 /\ trace[i - 1] = Ev("conv_copy", FALSE)
        /\ (pc = "done" /\ trace[i] = Ev("conv_copy", FALSE))
              => i < Len(trace) /\ trace[i + 1].op = "conv_encode"

\* C31: no step of a job changes, renames or deletes a file that an
\* earlier job left in the download directory: every such file is in the
\* directory after the step as it was before it (same name, container,
\* audio and modification time).
C31_EarlierFilesUntouched ==
    [][\A g \in dir :
          g.origin = "old" => \E h \in dir' : h = g]_vars

\* the option words of the invocation contract, besides the playlist flag
\* and the output template that every command carries
ContractWords == {"-f", "--progress", "--no-warnings",
                  "-x", "--audio-format", "--audio-quality"}
AudioGroup == {"-x", "--audio-format", "--audio-quality"}

\* C32: every fetch-tool command of a download carries one of
\* --no-playlist/--yes-playlist, --progress and --no-warnings, and besides
\* them only an optional -f and an optional, complete
\* -x --audio-format --audio-quality group.
C32_InvocationContract ==
    \A i \in DOMAIN fetches :
        /\ fetches[i].playlist \in {"--no-playlist", "--yes-playlist"}
        /\ {"--progress", "--no-warnings"} \subseteq fetches[i].opts
        /\ fetches[i].opts \subseteq ContractWords
        /\ \/ AudioGroup \subseteq fetches[i].opts
           \/ AudioGroup \cap fetches[i].opts = {}

\* the platform of a URL, Instagram first
PlatformOf(url) ==
    IF "instagram.com" \in url.domains THEN "instagram"
    ELSE IF "tiktok.com" \in url.domains THEN "tiktok"
    ELSE "other"
\* the capability table of the claim
NeedsDownscaling(platform, resolution) ==
    \/ platform = "instagram" /\ resolution \in {"480p", "360p", "144p"}
    \/ platform = "tiktok"
          /\ resolution \in {"1080p", "720p", "480p", "360p", "144p"}

\* C33: the two capability functions are the table (Instagram: 480p, 360p,
\* 144p; TikTok: every bounded tier; never for "best"), and the step that
\* dispatches a valid video request takes the downscale path of the URL's
\* platform exactly when the table says so, a URL that names both
\* platforms counting as Instagram.
C33_NeedsDownscalingTable ==
    [][/\ \A r \in Resolutions :
             /\ needs_instagram_downscaling(r)
                   <=> NeedsDownscaling("instagram", r)
             /\ needs_tiktok_downscaling(r) <=> NeedsDownscaling("tiktok", r)
       /\ (pc = "start" /\ req.kind = "video" /\ is_valid_url(req.url))
             => pc' = (IF ~NeedsDownscaling(PlatformOf(req.url),
                                           req.resolution)
                       THEN "reg_fetch"
                       ELSE IF PlatformOf(req.url) = "instagram"
                       THEN "ig_fetch" ELSE "tt_fetch")]_vars

\* the regular download attempts of the job
RegularFetches == {i \in DOMAIN fetches : fetches[i].template = "title"}
\* the platform path of the job has returned failure
PlatformPathFailed ==
    /\ req.kind = "video"
    /\ Dispatch(req.url, req.resolution, FALSE) \in {"ig_fetch", "tt_fetch"}
    /\ pc \in {"reg_fetch", "reg_strip", "reg_convert", "done"}
    /\ \A i \in DOMAIN fetches : fetches[i].template # "title"
                                     => fetches[i].rc # 0

\* C34: once the Instagram or TikTok path has returned failure, the job
\* makes one regular download attempt and no more; its selector is the one
\* built for the requested resolution, whose first alternative is bounded
\* by that resolution's height; and the finished job reports
\* success exactly when that attempt exited 0.
C34_FallbackRegularOnce ==
    PlatformPathFailed
        => /\ Cardinality(RegularFetches) <= 1
           /\ pc # "reg_fetch" => Cardinality(RegularFetches) = 1
           /\ \A i \in RegularFetches :
                 /\ i = Len(fetches)
                 /\ fetches[i].sel = format_string(req.resolution,
                                                   req.include_audio)
                 /\ \E t \in DOMAIN fetches[i].sel[1] :
                       fetches[i].sel[1][t].h = ResHeight[req.resolution]
                 /\ pc = "done"
                       => (result = "success" <=> fetches[i].rc = 0)

\* all four Instagram strategies failed and the regular attempt succeeded
C34_Witness ==
    /\ PlatformPathFailed
    /\ "instagram.com" \in req.url.domains
    /\ Len(fetches) = Len(FormatStrategies) + 1
    /\ pc = "done" /\ result = "success"

\* the Instagram or TikTok path has selected its temp file and has gone
\* past the downscale stage, on its way to returning success
PlatformPathSucceeding ==
    /\ req.kind = "video"
    /\ temp_file # NoFile
    /\ pc \in {"pf_strip", "pf_convert", "done"}

\* C35: once the Instagram or TikTok path is past its downscale stage, and
\* so when it returns success, no file of the directory has the name of
\* the temp file the path selected: after a successful downscale it was
\* deleted, otherwise it was renamed to the final name.
C35_TempFileGone ==
    PlatformPathSucceeding
        => /\ ~Exists(dir, temp_file)
           /\ temp_file.pre = "temp_"
           /\ pc = "done" => result = "success"

\* a finished job whose downscale transcode ran and succeeded
C35_Witness ==
    /\ PlatformPathSucceeding
    /\ pc = "done"
    /\ stages # << >> /\ stages[1] = St("downscale", "fallback")
    /\ Exists(dir, final_path)

\* C36: the selector of every playlist fetch is the selector the
\* single-item path builds for the same resolution and include_audio, with
\* the same fallback alternatives.
C36_PlaylistSelectorSame ==
    \A i \in DOMAIN fetches :
        fetches[i].playlist = "--yes-playlist"
            => fetches[i].sel = format_string(req.resolution,
                                              req.include_audio)

\* the position of a selector in the list of Instagram strategies
StrategyIndex(sel) == CHOOSE k \in DOMAIN FormatStrategies :
                         FormatStrategies[k] = sel
StrategyFetches == {i \in DOMAIN fetches : fetches[i].template = "temp_title"}
\* the job makes finitely many fetch-tool download runs, none twice, and
\* ends with True or False
BoundedAndDecided ==
    /\ Len(fetches) <= Len(FormatStrategies) + 1
    /\ \A i, j \in StrategyFetches :
          i < j => StrategyIndex(fetches[i].sel)
                      < StrategyIndex(fetches[j].sel)
    /\ Cardinality({i \in DOMAIN fetches :
                       fetches[i].template = "temp_tiktok"}) <= 1
    /\ Cardinality(RegularFetches) <= 1
    /\ pc \in {"start", "audio", "reg_fetch", "reg_strip", "reg_convert",
                "ig_fetch", "tt_fetch", "tt_title", "pf_downscale",
                "pf_strip", "pf_convert", "done"}
    /\ pc = "done" => result \in {"success", "failure"}
    /\ pc # "done" => result = "pending"
Raised == {i \in DOMAIN trace :
             trace[i].op \in {"raise_outer", "raise_path", "raise_stage"}}

\* C37 as stated: the job makes at most four strategy runs and one regular
\* run, none twice, ends with True or False, and a job in which an
\* exception was raised ends with False.
C37_ExceptionGivesFalse ==
    /\ BoundedAndDecided
    /\ (pc = "done" /\ Raised # {}) => result = "failure"

\* C37 amended: the job makes at most four strategy runs and one regular
\* run, none twice, and ends with True or False whatever exceptions were
\* raised; an exception that reaches the handler of download_with_options
\* or of the audio download ends the job with False, while one caught
\* inside a strategy, a platform path or a post-processing helper lets the
\* job go on.
C37_ExceptionsNeverPropagate ==
    /\ BoundedAndDecided
    /\ \A i \in DOMAIN trace :
          trace[i].op = "raise_outer"
              => i = Len(trace) /\ pc = "done" /\ result = "failure"
    /\ \A i \in DOMAIN trace :
          (trace[i].op \in {"raise_path", "raise_stage"} /\ i = Len(trace))
              => pc # "done" \/ result = "success"

\* all four Instagram strategies were run, the regular download raised,
\* and the job ended with False
C37_Witness ==
    /\ Cardinality(StrategyFetches) = Len(FormatStrategies)
    /\ trace[Len(trace)].op = "raise_outer"
    /\ pc = "done" /\ result = "failure"

\* C38: the single-item and the playlist info lookup give the same error
\* kind for the same error text of the fetch tool: a lookup that failed
\* with a text has the kind that either lookup gives for that text.
C38_SameClassification ==
    (pc = "info_failed" /\ fetches # << >> /\ fetches[Len(fetches)].rc # 0)
        => /\ info_result.error = video_info_error(LookupStderr).error
           /\ info_result.error = playlist_info_error(LookupStderr).error

\* the step calls download_with_options
DownloadStarted == pc = "start" /\ pc' # "start"

\* C39: in the video and audio handlers a step calls download_with_options
\* only when the info lookup for the URL of that call has returned without
\* an error; a lookup result always belongs to the current URL; and after
\* an info error the next step of the handler is a return or a new URL
\* entry, never the download.
C39_DownloadOnlyAfterInfo ==
    [][/\ DownloadStarted
            => info_result.error = "" /\ info_result # NoInfo
       /\ req'.url # req.url => pc' = "info" /\ info_result' = NoInfo
       /\ pc = "info_failed" => pc' \in {"info", "returned"}
       /\ (pc = "info" /\ info_result'.error # "") => pc' = "info_failed"]_vars

\* after an info error and a retry with another URL, the lookup returned
\* without an error and the download was started
C39_Witness ==
    /\ Retries > 0
    /\ info_result.error = "" /\ info_result # NoInfo
    /\ pc \in {"audio", "reg_fetch", "ig_fetch", "tt_fetch"}

====
